---- MODULE Spec2Model ----
(***************************************************************************)
(* Model of wmcs_edits.py: per-wiki tabulation of total edits and edits    *)
(* coming from the Cloud VPS networks.  The two scripts of the repository, *)
(* wmcs_edits.py and wmcs-edits.py, differ only in the names of locals and *)
(* the text of one log message; line numbers refer to wmcs_edits.py.       *)
(*                                                                         *)
(* Strings are sequences of one-character strings, so that slicing,        *)
(* stripping, splitting and comparing are computed as Python computes      *)
(* them.  An exception is a value: every call result is a record           *)
(* [exc |-> <exception class or "None">, val |-> <returned value>].        *)
(***************************************************************************)
EXTENDS Integers, Sequences, FiniteSets, TLC

VARIABLES
    files,        \* the configuration file system: path -> content
    res,          \* the last resolver call and what it returned or raised
    pc,           \* position of the run
    todo,         \* wikis the loop of calc_wmcs_edits has still to visit
    dbname,       \* the wiki being processed
    stats,        \* calc_wmcs_edits: dbname -> {'wmcs', 'total'}
    log,          \* records written through logging
    connection,   \* get_edit_counts: the local `connection`
    opened,       \* connections whose socket is open
    total_edits,  \* get_edit_counts: total_edits
    wmcs_edits,   \* get_edit_counts: wmcs_edits
    nrows,        \* rows the cursor has yielded so far
    ip,           \* get_edit_counts: the parsed address of the current row
    net,          \* get_edit_counts: index of `network` in WMCS_NETWORKS
    keys,         \* __main__: what is left of sorted(DATA.keys())
    GRAND_TOTAL,  \* __main__: GRAND_TOTAL
    WMCS_TOTAL,   \* __main__: WMCS_TOTAL
    out,          \* lines printed on standard output
    ret           \* how get_edit_counts ended for each wiki visited

vars == <<files, res, pc, todo, dbname, stats, log, connection, opened,
          total_edits, wmcs_edits, nrows, ip, net, keys, GRAND_TOTAL,
          WMCS_TOTAL, out, ret>>

----------------------------------------------------------------------------
(* Bounds of the model *)

\* lines of a plain (expression-free) list file
MaxLines == 3
\* (operator, operand) pairs of a generated expression line
MaxPairs == 2
\* nesting of dblist calls before the interpreter gives up (RecursionError)
MaxDepth == 3
\* rows one query returns
MaxRows == 2

----------------------------------------------------------------------------
(* Characters and strings *)

\* The characters of the model in increasing code point order.
Alphabet ==
    << "\t", "\n", " ", "#", "%", "+", ",", "-", ".", "/",
       "0", "1", "2", "3", "4", "5", "6", "7", "8", "9",
       ":", "A", "L", "O", "T",
       "a", "b", "c", "d", "e", "i", "k", "l", "o", "p", "q", "r", "s",
       "t", "v", "w", "x", "z" >>

ord(c) == CHOOSE i \in 1..Len(Alphabet) : Alphabet[i] = c

\* str.strip() and str.split() without argument work on whitespace
Whitespace == {"\t", "\n", " "}

\* Python's str < str: the first differing character decides, a proper
\* prefix is smaller.
RECURSIVE StrLess(_, _)
StrLess(a, b) ==
    IF b = <<>> THEN FALSE
    ELSE IF a = <<>> THEN TRUE
    ELSE IF Head(a) = Head(b) THEN StrLess(Tail(a), Tail(b))
    ELSE ord(Head(a)) < ord(Head(b))

RECURSIVE strcspn(_, _)
strcspn(string, pred) ==
    IF string = <<>> \/ Head(string) \in pred THEN 0
    ELSE 1 + strcspn(Tail(string), pred)

RECURSIVE lstrip(_, _)
lstrip(s, chars) ==
    IF s # <<>> /\ Head(s) \in chars THEN lstrip(Tail(s), chars) ELSE s

RECURSIVE rstrip(_, _)
rstrip(s, chars) ==
    IF s # <<>> /\ s[Len(s)] \in chars
    THEN rstrip(SubSeq(s, 1, Len(s) - 1), chars) ELSE s

strip(s, chars) == rstrip(lstrip(s, chars), chars)

\* str.split(): split at runs of whitespace, no empty token
RECURSIVE split(_)
split(s) ==
    LET t == lstrip(s, Whitespace) IN
    IF t = <<>> THEN <<>>
    ELSE LET k == strcspn(t, Whitespace) IN
         <<SubSeq(t, 1, k)>> \o split(SubSeq(t, k + 1, Len(t)))

\* str.splitlines(): a line ends at "\n"; a final "\n" opens no further line
RECURSIVE splitlines(_)
splitlines(s) ==
    IF s = <<>> THEN <<>>
    ELSE LET k == strcspn(s, {"\n"}) IN
         IF k = Len(s) THEN <<s>>
         ELSE <<SubSeq(s, 1, k)>> \o splitlines(SubSeq(s, k + 2, Len(s)))

\* zip(a, a) over one iterator: (t1, t2), (t3, t4), ...; an odd last term
\* is dropped
pairwise(iterable) ==
    [i \in 1..(Len(iterable) \div 2) |->
        <<iterable[2 * i - 1], iterable[2 * i]>>]

----------------------------------------------------------------------------
(* Results and exceptions *)

Return(v) == [exc |-> "None", val |-> v]
Raise(e) == [exc |-> e, val |-> {}]

----------------------------------------------------------------------------
(* The named-set resolver *)

DblistPath(name) ==
    <<"d", "b", "l", "i", "s", "t", "s", "/">> \o name
        \o <<".", "d", "b", "l", "i", "s", "t">>

conf_file(name) ==
    IF name \in DOMAIN files THEN Return(files[name])
    ELSE Raise("FileNotFoundError")

RECURSIVE dblistD(_, _)
RECURSIVE dblist_lines(_, _, _)
RECURSIVE eval_dblistD(_, _)
RECURSIVE eval_terms(_, _, _)

\* the loop of eval_dblist over pairwise(terms), from pair i on
eval_terms(pairs, result, depth) ==
    IF pairs = <<>> THEN Return(result)
    ELSE LET op == pairs[1][1]
             part == pairs[1][2]
         IN
         IF op = <<"+">> THEN
             LET r == dblistD(part, depth) IN
             IF r.exc # "None" THEN r
             \* set + set: unsupported operand type(s) for +: 'set' and 'set'
             ELSE Raise("TypeError")
         ELSE IF op = <<"-">> THEN
             LET r == dblistD(part, depth) IN
             IF r.exc # "None" THEN r
             ELSE eval_terms(Tail(pairs), result \ r.val, depth)
         ELSE eval_terms(Tail(pairs), result, depth)

eval_dblistD(line, depth) ==
    LET terms == split(strip(line, {"%", " "})) IN
    IF terms = <<>> THEN Raise("IndexError")   \* pop from empty list
    ELSE LET base == dblistD(terms[Len(terms)], depth) IN
         IF base.exc # "None" THEN base
         ELSE eval_terms(pairwise(SubSeq(terms, 1, Len(terms) - 1)),
                         base.val, depth)

\* the loop of dblist over the lines of the file; dbs is kept as the set
\* of its elements, which is all that set(dbs) retains
dblist_lines(lines, dbs, depth) ==
    IF lines = <<>> THEN Return(dbs)
    ELSE LET raw == Head(lines)
             line == strip(SubSeq(raw, 1, strcspn(raw, {"#"})), Whitespace)
         IN
         IF SubSeq(line, 1, IF Len(line) < 2 THEN Len(line) ELSE 2) = <<"%", "%">>
         THEN LET r == eval_dblistD(line, depth) IN
              IF r.exc # "None" THEN r
              ELSE dblist_lines(Tail(lines), r.val, depth)
         ELSE dblist_lines(Tail(lines), dbs \cup {line}, depth)

\* dblist(name) at nesting depth `depth`
dblistD(name, depth) ==
    IF depth = 0 THEN Raise("RecursionError")
    ELSE LET f == conf_file(DblistPath(name)) IN
         IF f.exc # "None" THEN f
         ELSE dblist_lines(splitlines(f.val), {}, depth - 1)

dblist(name) == dblistD(name, MaxDepth)

s_all == <<"a", "l", "l">>
s_closed == <<"c", "l", "o", "s", "e", "d">>
s_private == <<"p", "r", "i", "v", "a", "t", "e">>

\* the difference grouped from the right: all - (closed - private)
get_public_open_wikis_RightGrouped ==
    LET a == dblist(s_all) IN
    IF a.exc # "None" THEN a
    ELSE LET c == dblist(s_closed) IN
    IF c.exc # "None" THEN c
    ELSE LET p == dblist(s_private) IN
    IF p.exc # "None" THEN p
    ELSE Return(a.val \ (c.val \ p.val))

get_public_open_wikis ==
    LET a == dblist(s_all) IN
    IF a.exc # "None" THEN a
    ELSE LET c == dblist(s_closed) IN
    IF c.exc # "None" THEN c
    ELSE LET p == dblist(s_private) IN
    IF p.exc # "None" THEN p
    ELSE Return((a.val \ c.val) \ p.val)

----------------------------------------------------------------------------
(* The configuration directories the resolver is checked on *)

w1 == <<"w", "1">>
w2 == <<"w", "2">>
w3 == <<"w", "3">>
s_x == <<"x">>      \* a list that is defined by an expression
s_q == <<"q">>      \* a list that has no file

Seqs(S, n) == UNION {[1..k -> S] : k \in 0..n}

\* the text of a file: every line ended by a newline
RECURSIVE Text(_)
Text(lines) ==
    IF lines = <<>> THEN <<>>
    ELSE Head(lines) \o <<"\n">> \o Text(Tail(lines))

RECURSIVE Join(_)
Join(terms) ==
    IF terms = <<>> THEN <<>>
    ELSE IF Len(terms) = 1 THEN terms[1]
    ELSE Head(terms) \o <<" ">> \o Join(Tail(terms))

ExprLine(terms) == <<"%", "%", " ">> \o Join(terms)

Operators == {<<"+">>, <<"-">>}

\* lines without an expression: blank, whitespace only, comment only,
\* entries with and without surrounding whitespace and trailing comment
PlainLines ==
    { <<>>,
      <<" ", "\t">>,
      <<"#", " ", "c">>,
      w1,
      <<" ">> \o w2 \o <<" ", "#", " ", "c">>,
      w3 \o <<"#">> }

\* `%% A op B`
InfixTerms ==
    { <<a, op, b>> : a \in {s_all, s_closed, s_private}, op \in Operators,
                     b \in {s_all, s_closed, s_private} }

\* `%% op1 A1 ... opn An base`, n pairs
RECURSIVE PairTerms(_)
PairTerms(n) ==
    IF n = 0 THEN {<<>>}
    ELSE { <<op, a>> \o rest : op \in Operators, a \in {s_closed, s_private},
                               rest \in PairTerms(n - 1) }

PrefixTerms ==
    { ps \o <<base>> : ps \in UNION {PairTerms(n) : n \in 0..MaxPairs},
                       base \in {s_all, s_closed} }

\* expressions that cannot be evaluated: no term, a list that refers to
\* itself, a list without file
BrokenTerms == { <<>>, <<s_x>>, <<<<"-">>, s_q, s_all>>, <<s_q>> }

ExprContents ==
    { Text(<<ExprLine(t)>>) : t \in InfixTerms \cup PrefixTerms \cup BrokenTerms }
    \cup { Text(<<w1, ExprLine(t \o <<s_all>>)>>) : t \in PairTerms(1) }
    \cup { Text(<<ExprLine(t \o <<s_all>>), w1, <<>>>>) : t \in PairTerms(1) }

PlainContents ==
    { Text(ls) : ls \in Seqs(PlainLines, MaxLines) }
    \cup { w1 \o <<"\n">> \o w2, <<"\n">>, w1 }

AllContents == { Text(<<w1, w2, w3>>), Text(<<w1, w2>>), Text(<<w3>>), <<>> }
ClosedContents == { Text(<<w2>>), Text(<<w1>>), Text(<<w1, w3>>), <<>> }
PrivateContents == { Text(<<w3>>), Text(<<w2>>), Text(<<w2, w3>>), <<>> }

Directory(a, c, p, x) ==
    (DblistPath(s_all) :> a) @@ (DblistPath(s_closed) :> c)
        @@ (DblistPath(s_private) :> p) @@ (DblistPath(s_x) :> x)

NoCall == [call |-> "none", arg |-> <<>>, ret |-> Return({})]

\* the values of the run's variables while nothing runs
Idle ==
    /\ pc = "idle"
    /\ todo = {}
    /\ dbname = <<>>
    /\ stats = <<>>
    /\ log = <<>>
    /\ connection = <<>>
    /\ opened = {}
    /\ total_edits = 0
    /\ wmcs_edits = 0
    /\ nrows = 0
    /\ ip = <<>>
    /\ net = 0
    /\ keys = <<>>
    /\ GRAND_TOTAL = 0
    /\ WMCS_TOTAL = 0
    /\ out = <<>>
    /\ ret = <<>>

runVars == <<pc, todo, dbname, stats, log, connection, opened, total_edits,
             wmcs_edits, nrows, ip, net, keys, GRAND_TOTAL, WMCS_TOTAL, out,
             ret>>

InitResolve ==
    /\ \/ \E a \in AllContents, c \in ClosedContents, p \in PrivateContents,
             x \in ExprContents : files = Directory(a, c, p, x)
       \/ \E x \in PlainContents :
             files = Directory(Text(<<w1, w2, w3>>), Text(<<w2>>),
                               Text(<<w3>>), x)
    /\ res = NoCall
    /\ Idle

\* a call of dblist(name)
Resolve(name) ==
    /\ res' = [call |-> "dblist", arg |-> name, ret |-> dblist(name)]
    /\ UNCHANGED <<files, runVars>>

\* a call of get_public_open_wikis()
OpenWikis ==
    /\ res' = [call |-> "get_public_open_wikis", arg |-> <<>>,
               ret |-> get_public_open_wikis]
    /\ UNCHANGED <<files, runVars>>

NextResolve ==
    \/ \E name \in {s_all, s_closed, s_private, s_x, s_q} : Resolve(name)
    \/ OpenWikis

SpecResolve == InitResolve /\ [][NextResolve]_vars

----------------------------------------------------------------------------
(* The Cloud VPS networks and the classification of an address *)

\* ipaddress.IPv4Network('a.b.c.d/len').  A 32-bit address is kept as its
\* four octets, most significant first.
IPv4Network(a, b, c, d, len) ==
    [network_address |-> <<a, b, c, d>>, prefixlen |-> len]

\* the table with 10.68.0.0/21 in the place of 10.68.16.0/21, which
\* contains 10.68.0.0/24
WMCS_NETWORKS_Overlapping ==
    << IPv4Network(10, 68, 0, 0, 24),
       IPv4Network(10, 68, 0, 0, 21),
       IPv4Network(172, 16, 0, 0, 21),
       IPv4Network(10, 68, 32, 0, 24),
       IPv4Network(10, 68, 48, 0, 24),
       IPv4Network(10, 196, 0, 0, 24),
       IPv4Network(10, 196, 16, 0, 21),
       IPv4Network(172, 16, 128, 0, 21),
       IPv4Network(10, 196, 32, 0, 24),
       IPv4Network(10, 196, 48, 0, 24) >>

WMCS_NETWORKS ==
    << IPv4Network(10, 68, 0, 0, 24),
       IPv4Network(10, 68, 16, 0, 21),
       IPv4Network(172, 16, 0, 0, 21),
       IPv4Network(10, 68, 32, 0, 24),
       IPv4Network(10, 68, 48, 0, 24),
       IPv4Network(10, 196, 0, 0, 24),
       IPv4Network(10, 196, 16, 0, 21),
       IPv4Network(172, 16, 128, 0, 21),
       IPv4Network(10, 196, 32, 0, 24),
       IPv4Network(10, 196, 48, 0, 24) >>

\* `ip in network`: the address under the netmask is the network address.
\* Octet i holds the bits 8(i-1)+1 .. 8i, of which the netmask keeps the
\* first prefixlen - 8(i-1), at least none and at most all eight.
InNetwork(address, network) ==
    \A i \in 1..4 :
        LET kept == network.prefixlen - 8 * (i - 1)
            hostbits == IF kept >= 8 THEN 0 ELSE IF kept <= 0 THEN 8 ELSE 8 - kept
        IN (address[i] \div (2 ^ hostbits)) * (2 ^ hostbits)
               = network.network_address[i]

Digits == <<"0", "1", "2", "3", "4", "5", "6", "7", "8", "9">>

\* split at every occurrence of the separator, as str.split(sep)
RECURSIVE splitAt(_, _)
splitAt(s, sep) ==
    LET k == strcspn(s, {sep}) IN
    IF k = Len(s) THEN <<s>>
    ELSE <<SubSeq(s, 1, k)>> \o splitAt(SubSeq(s, k + 2, Len(s)), sep)

RECURSIVE int(_)
int(digits) ==
    IF digits = <<>> THEN 0
    ELSE 10 * int(SubSeq(digits, 1, Len(digits) - 1))
         + (CHOOSE d \in 0..9 : Digits[d + 1] = digits[Len(digits)])

\* ipaddress.IPv4Address(text): four decimal octets of at most three
\* digits and at most 255, or AddressValueError
IPv4Address(address) ==
    LET octets == splitAt(address, ".")
        IsOctet(o) ==
            /\ o # <<>>
            /\ Len(o) <= 3
            /\ \A i \in 1..Len(o) : \E d \in 1..10 : Digits[d] = o[i]
            /\ int(o) <= 255
    IN
    IF Len(octets) = 4 /\ \A i \in 1..4 : IsOctet(octets[i])
    THEN Return(<<int(octets[1]), int(octets[2]), int(octets[3]),
                  int(octets[4])>>)
    ELSE Raise("AddressValueError")

\* str(n) of a natural number
RECURSIVE str(_)
str(n) ==
    IF n < 10 THEN <<Digits[n + 1]>>
    ELSE str(n \div 10) \o <<Digits[(n % 10) + 1]>>

\* '{},{},{}'.format(name, t, w)
format(name, t, w) == name \o <<",">> \o str(t) \o <<",">> \o str(w)

\* DATA.keys() without sorted(): some order, here the decreasing one
RECURSIVE sorted_Missing(_)
sorted_Missing(names) ==
    IF names = {} THEN <<>>
    ELSE LET m == CHOOSE x \in names : \A y \in names \ {x} : StrLess(y, x)
         IN <<m>> \o sorted_Missing(names \ {m})

\* sorted(names): increasing in Python's string order
RECURSIVE sorted(_)
sorted(names) ==
    IF names = {} THEN <<>>
    ELSE LET m == CHOOSE x \in names : \A y \in names \ {x} : StrLess(x, y)
         IN <<m>> \o sorted(names \ {m})

----------------------------------------------------------------------------
(* Routing *)

Slices ==
    << <<"s", "1">>, <<"s", "2">>, <<"s", "4">>, <<"s", "5">>,
       <<"s", "6">>, <<"s", "7">>, <<"s", "8">> >>

s3 == <<"s", "3">>

\* the loop of get_slice from the i-th slice on
RECURSIVE get_slice_from(_, _)
get_slice_from(i, name) ==
    IF i > Len(Slices) THEN Return(s3)
    ELSE LET r == dblist(Slices[i]) IN
         IF r.exc # "None" THEN r
         ELSE IF name \in r.val THEN Return(Slices[i])
         ELSE get_slice_from(i + 1, name)

get_slice(name) == get_slice_from(1, name)

----------------------------------------------------------------------------
(* The run: __main__, calc_wmcs_edits and get_edit_counts *)

aawiki == <<"a", "a", "w", "i", "k", "i">>
zzwiki == <<"z", "z", "w", "i", "k", "i">>
aa == <<"a", "a">>

\* values of the cuc_ip column
RowValues ==
    { <<"1", "0", ".", "6", "8", ".", "0", ".", "5">>,
      <<"1", "0", ".", "6", "8", ".", "2", "3", ".", "2", "5", "5">>,
      <<"1", "0", ".", "6", "8", ".", "2", "4", ".", "0">>,
      <<"8", ".", "8", ".", "8", ".", "8">>,
      <<":", ":", "1">>,
      <<"1", "0", ".", "6", "8", ".", "0", ".", "2", "5", "6">> }

SliceFiles(present) ==
    [path \in {DblistPath(Slices[i]) : i \in present} |->
        IF path = DblistPath(Slices[1]) THEN Text(<<aawiki, w1>>)
        ELSE IF path = DblistPath(Slices[2]) THEN Text(<<w2>>)
        ELSE <<>>]

RunDirectory(a, c, p, present) ==
    (DblistPath(s_all) :> a) @@ (DblistPath(s_closed) :> c)
        @@ (DblistPath(s_private) :> p) @@ SliceFiles(present)

RunDirectories ==
    { RunDirectory(Text(<<zzwiki, aawiki, aa>>), <<>>, <<>>, 1..7),
      RunDirectory(Text(<<w1, w2, w3>>), Text(<<w2>>), Text(<<w3>>), 1..7),
      RunDirectory(Text(<<zzwiki, aawiki>>), Text(<<w2>>), <<>>, 1..7),
      RunDirectory(Text(<<aawiki, <<>>>>), <<>>, <<>>, 1..7),
      RunDirectory(Text(<<ExprLine(<<<<"+">>, s_closed, s_private>>)>>),
                   Text(<<w2>>), Text(<<w3>>), 1..7),
      RunDirectory(Text(<<zzwiki, aawiki>>), <<>>, <<>>, 1..2) }

Init ==
    /\ files \in RunDirectories
    /\ res = NoCall
    /\ pc = "start"
    /\ todo = {}
    /\ dbname = <<>>
    /\ stats = <<>>
    /\ log = <<>>
    /\ connection = <<>>
    /\ opened = {}
    /\ total_edits = 0
    /\ wmcs_edits = 0
    /\ nrows = 0
    /\ ip = <<>>
    /\ net = 0
    /\ keys = <<>>
    /\ GRAND_TOTAL = 0
    /\ WMCS_TOTAL = 0
    /\ out = <<>>
    /\ ret = <<>>

\* an exception nothing catches ends the process with a traceback
Uncaught ==
    /\ pc' = "aborted"
    /\ UNCHANGED <<stats, log>>

\* get_edit_counts called without try/except: every exception ends the run
Except_Missing(exc) == Uncaught

\* calc_wmcs_edits, the except clause around get_edit_counts
Except(exc) ==
    IF exc = "MySQLError"
    THEN /\ log' = Append(log, [level |-> "ERROR", msg |-> "Skipping",
                                db |-> dbname, exc |-> exc])
         /\ pc' = "loop"
         /\ UNCHANGED stats
    ELSE Uncaught

\* get_edit_counts ends by raising exc: its locals are gone
Raises(exc) ==
    /\ ret' = (dbname :> exc) @@ ret
    /\ connection' = <<>>
    /\ Except(exc)

\* calc_wmcs_edits: stats = {}, the set of wikis to visit
Start ==
    /\ pc = "start"
    /\ LET wikis == get_public_open_wikis IN
       IF wikis.exc # "None"
       THEN /\ Uncaught
            /\ UNCHANGED todo
       ELSE /\ todo' = wikis.val
            /\ pc' = "loop"
            /\ UNCHANGED <<stats, log>>
    /\ UNCHANGED <<files, res, dbname, connection, opened, total_edits,
                   wmcs_edits, nrows, ip, net, keys, GRAND_TOTAL,
                   WMCS_TOTAL, out, ret>>

\* for dbname in get_public_open_wikis(): the order of a set is not fixed
NextWiki ==
    /\ pc = "loop"
    /\ \E d \in todo :
          /\ dbname' = d
          /\ todo' = todo \ {d}
          /\ log' = Append(log, [level |-> "INFO", msg |-> "Processing",
                                 db |-> d, exc |-> "None"])
    /\ pc' = "conn"
    /\ UNCHANGED <<files, res, stats, connection, opened, total_edits,
                   wmcs_edits, nrows, ip, net, keys, GRAND_TOTAL,
                   WMCS_TOTAL, out, ret>>

\* get_edit_counts up to connection = get_conn(dbname)
GetConn ==
    /\ pc = "conn"
    /\ wmcs_edits' = 0
    /\ total_edits' = 0
    /\ nrows' = 0
    /\ LET s == get_slice(dbname) IN
       IF s.exc # "None"
       THEN /\ Raises(s.exc)
            /\ UNCHANGED opened
       ELSE \/ \* the SRV lookup fails (NXDOMAIN, NoAnswer, Timeout)
               /\ Raises("DNSException")
               /\ UNCHANGED opened
            \/ \* pymysql.connect fails
               /\ Raises("MySQLError")
               /\ UNCHANGED opened
            \/ /\ connection' = [db |-> dbname, slice |-> s.val]
               /\ opened' = opened \cup {[db |-> dbname, slice |-> s.val]}
               /\ pc' = "execute"
               /\ UNCHANGED <<stats, log, ret>>
    /\ UNCHANGED <<files, res, todo, dbname, ip, net, keys, GRAND_TOTAL,
                   WMCS_TOTAL, out>>

\* cur.execute(...)
Execute ==
    /\ pc = "execute"
    /\ \/ /\ pc' = "rows"
          /\ UNCHANGED <<stats, log, ret, connection>>
       \/ Raises("MySQLError")
    /\ UNCHANGED <<files, res, todo, dbname, opened, total_edits,
                   wmcs_edits, nrows, ip, net, keys, GRAND_TOTAL,
                   WMCS_TOTAL, out>>

\* for row in cur: the next row, up to the parse of its address
FetchRow ==
    /\ pc = "rows"
    /\ nrows < MaxRows
    /\ \E cuc_ip \in RowValues :
          LET a == IPv4Address(cuc_ip) IN
          /\ total_edits' = total_edits + 1
          /\ nrows' = nrows + 1
          /\ IF a.exc = "AddressValueError"
             THEN UNCHANGED <<pc, ip, net>>      \* continue
             ELSE /\ ip' = a.val
                  /\ net' = 1
                  /\ pc' = "nets"
    /\ UNCHANGED <<files, res, todo, dbname, stats, log, connection, opened,
                   wmcs_edits, keys, GRAND_TOTAL, WMCS_TOTAL, out, ret>>

\* for network in WMCS_NETWORKS: one pass of the body
TestNetwork ==
    /\ pc = "nets"
    /\ wmcs_edits' = IF InNetwork(ip, WMCS_NETWORKS[net])
                     THEN wmcs_edits + 1 ELSE wmcs_edits
    \* `continue` goes on with the next network
    /\ IF net < Len(WMCS_NETWORKS)
       THEN /\ net' = net + 1
            /\ UNCHANGED <<pc, ip>>
       ELSE /\ net' = 0
            /\ ip' = <<>>
            /\ pc' = "rows"
    /\ UNCHANGED <<files, res, todo, dbname, stats, log, connection, opened,
                   total_edits, nrows, keys, GRAND_TOTAL, WMCS_TOTAL, out,
                   ret>>

\* the cursor is exhausted: get_edit_counts returns, calc_wmcs_edits stores
Returns ==
    /\ pc = "rows"
    /\ stats' = (dbname :> [wmcs |-> wmcs_edits, total |-> total_edits])
                    @@ stats
    /\ ret' = (dbname :> "None") @@ ret
    /\ connection' = <<>>
    /\ pc' = "loop"
    /\ UNCHANGED <<files, res, todo, dbname, log, opened, total_edits,
                   wmcs_edits, nrows, ip, net, keys, GRAND_TOTAL,
                   WMCS_TOTAL, out>>

\* calc_wmcs_edits returns stats; __main__ starts the report
EndLoop ==
    /\ pc = "loop"
    /\ todo = {}
    /\ keys' = sorted(DOMAIN stats)
    /\ GRAND_TOTAL' = 0
    /\ WMCS_TOTAL' = 0
    /\ pc' = "print"
    /\ UNCHANGED <<files, res, todo, dbname, stats, log, connection, opened,
                   total_edits, wmcs_edits, nrows, ip, net, out, ret>>

\* for wiki in sorted(DATA.keys()): one pass of the body
PrintLine ==
    /\ pc = "print"
    /\ keys # <<>>
    /\ LET wiki == Head(keys)
           t == stats[wiki].total
           w == stats[wiki].wmcs
       IN
       /\ GRAND_TOTAL' = GRAND_TOTAL + t
       /\ WMCS_TOTAL' = WMCS_TOTAL + w
       /\ out' = Append(out, format(wiki, t, w))
    /\ keys' = Tail(keys)
    /\ UNCHANGED <<files, res, pc, todo, dbname, stats, log, connection,
                   opened, total_edits, wmcs_edits, nrows, ip, net, ret>>

PrintTotal ==
    /\ pc = "print"
    /\ keys = <<>>
    /\ out' = Append(out, format(<<"T", "O", "T", "A", "L">>,
                                 GRAND_TOTAL, WMCS_TOTAL))
    /\ pc' = "done"
    /\ UNCHANGED <<files, res, todo, dbname, stats, log, connection, opened,
                   total_edits, wmcs_edits, nrows, ip, net, keys,
                   GRAND_TOTAL, WMCS_TOTAL, ret>>

\* The script never closes a connection.  One that nothing refers to any
\* more is closed when the interpreter finalizes it, which is at a time of
\* the interpreter's choosing.
Finalize ==
    /\ \E c \in opened :
          /\ c # connection
          /\ opened' = opened \ {c}
    /\ UNCHANGED <<files, res, pc, todo, dbname, stats, log, connection,
                   total_edits, wmcs_edits, nrows, ip, net, keys,
                   GRAND_TOTAL, WMCS_TOTAL, out, ret>>

Next ==
    \/ Start
    \/ NextWiki
    \/ GetConn
    \/ Execute
    \/ FetchRow
    \/ TestNetwork
    \/ Returns
    \/ EndLoop
    \/ PrintLine
    \/ PrintTotal
    \/ Finalize

Spec == Init /\ [][Next]_vars

----------------------------------------------------------------------------
(* Properties of the resolver, checked under SpecResolve *)

IsCall(name) == res.call = "dblist" /\ res.arg = name

\* a line as dblist sees it: cut at the first `#`, stripped
Trimmed(raw) == strip(SubSeq(raw, 1, strcspn(raw, {"#"})), Whitespace)

IsExpression(line) == Len(line) >= 2 /\ SubSeq(line, 1, 2) = <<"%", "%">>

LinesOf(name) == splitlines(files[DblistPath(name)])

\* C3: a list whose only line is `%% A + B` resolves to the union of
\* resolve(A) and resolve(B), one whose only line is `%% A - B` to their
\* difference, for all resolvable A and B.
C3_UnionAndDifference ==
    \A t \in InfixTerms :
        LET a == dblist(t[1])
            b == dblist(t[3])
        IN
        ( /\ IsCall(s_x)
          /\ files[DblistPath(s_x)] = Text(<<ExprLine(t)>>)
          /\ a.exc = "None"
          /\ b.exc = "None" )
        => res.ret = Return(IF t[2] = <<"+">> THEN a.val \cup b.val
                            ELSE a.val \ b.val)

\* C4: get_public_open_wikis returns a name if and only if the name is in
\* resolve("all") and neither in resolve("closed") nor in
\* resolve("private"); it raises when one of the three cannot be resolved.
C4_OpenWikis ==
    res.call = "get_public_open_wikis" =>
        LET a == dblist(s_all)
            c == dblist(s_closed)
            p == dblist(s_private)
        IN
        IF a.exc = "None" /\ c.exc = "None" /\ p.exc = "None"
        THEN /\ res.ret.exc = "None"
             /\ \A n \in a.val \cup c.val \cup p.val \cup res.ret.val :
                    n \in res.ret.val
                        <=> (n \in a.val /\ n \notin c.val /\ n \notin p.val)
        ELSE res.ret.exc # "None"

\* C4 witness: all = {w1, w2, w3}, closed = {w2}, private = {w3} gives {w1}
C4_Witness ==
    /\ res.call = "get_public_open_wikis"
    /\ dblist(s_all) = Return({w1, w2, w3})
    /\ dblist(s_closed) = Return({w2})
    /\ dblist(s_private) = Return({w3})
    /\ res.ret = Return({w1})

\* C7: the set dblist returns never contains the empty string, and for a
\* file without expression line it is exactly the set of the non-empty
\* trimmed lines.
C7_SkipsEmptyLines ==
    \A name \in {s_all, s_closed, s_private, s_x} :
        (IsCall(name) /\ res.ret.exc = "None") =>
            LET lines == LinesOf(name) IN
            /\ <<>> \notin res.ret.val
            /\ (\A i \in 1..Len(lines) : ~IsExpression(Trimmed(lines[i])))
                  => res.ret.val = { Trimmed(lines[i]) : i \in 1..Len(lines) }
                                       \ {<<>>}

\* the reduction the expression stands for: the pairs applied in order to
\* the running result
RECURSIVE Reduce(_, _)
Reduce(pairs, result) ==
    IF pairs = <<>> THEN result
    ELSE Reduce(Tail(pairs),
                IF pairs[1][1] = <<"+">>
                THEN result \cup dblist(pairs[1][2]).val
                ELSE result \ dblist(pairs[1][2]).val)

\* C9: a line of (operator, operand) pairs followed by a base name
\* evaluates normally to resolve(base) with the pairs applied in order from
\* the front, `+` as union and `-` as difference.
C9_Reduction ==
    \A t \in PrefixTerms :
        ( /\ IsCall(s_x)
          /\ files[DblistPath(s_x)] = Text(<<ExprLine(t)>>) )
        => res.ret = Return(Reduce(pairwise(SubSeq(t, 1, Len(t) - 1)),
                                   dblist(t[Len(t)]).val))

----------------------------------------------------------------------------
(* Properties of the run, checked under Spec *)

RECURSIVE SumOver(_, _)
SumOver(names, field) ==
    IF names = {} THEN 0
    ELSE LET n == CHOOSE x \in names : TRUE IN
         stats[n][field] + SumOver(names \ {n}, field)

Visited == DOMAIN ret
Succeeded == {d \in Visited : ret[d] = "None"}
Failed(exc) == {d \in Visited : ret[d] = exc}

Lines == {out[i] : i \in 1..Len(out)}

TotalLine(names) ==
    format(<<"T", "O", "T", "A", "L">>, SumOver(names, "total"),
           SumOver(names, "wmcs"))

Skipped(d) ==
    \E i \in 1..Len(log) : log[i].msg = "Skipping" /\ log[i].db = d

\* C1: a data-store error of get_edit_counts never ends the run: the run
\* is aborted only by an exception of another kind; the result mapping
\* holds exactly the wikis whose get_edit_counts returned; the report is
\* printed only when every open wiki was visited; it has one line for each
\* wiki of the mapping, none for a failing wiki, and its TOTAL line sums
\* the wikis of the mapping.
C1_FailureIsolation ==
    /\ pc = "aborted" =>
          \/ get_public_open_wikis.exc # "None"
          \/ \E d \in Visited : ret[d] \notin {"None", "MySQLError"}
    /\ pc \in {"loop", "print", "done"} => DOMAIN stats = Succeeded
    /\ \A d \in Failed("MySQLError") : d \notin DOMAIN stats /\ Skipped(d)
    /\ pc \in {"print", "done"} => Visited = get_public_open_wikis.val
    /\ pc = "done" =>
          /\ Len(out) = Cardinality(Succeeded) + 1
          /\ \A d \in Succeeded :
                format(d, stats[d].total, stats[d].wmcs) \in Lines
          /\ \A d \in Failed("MySQLError") : \A t, w \in 0..MaxRows :
                format(d, t, w) \notin Lines
          /\ out[Len(out)] = TotalLine(Succeeded)

\* C1 witness: three wikis, one failed with a data-store error, the report
\* printed for the other two
C1_Witness ==
    /\ pc = "done"
    /\ Cardinality(Failed("MySQLError")) = 1
    /\ Cardinality(Succeeded) = 2
    /\ \E d \in Succeeded : stats[d].total > 0

\* C2: internal <= total, in get_edit_counts after every step and in every
\* record it returned.
C2_InternalAtMostTotal ==
    /\ wmcs_edits <= total_edits
    /\ \A d \in DOMAIN stats : stats[d].wmcs <= stats[d].total

\* C2 witness: a returned record counting rows inside and outside the
\* networks
C2_Witness ==
    \E d \in DOMAIN stats : stats[d].wmcs >= 1 /\ stats[d].wmcs < stats[d].total

\* C5: a failed SRV lookup is handled like a data-store error: the wiki is
\* logged as skipped and the run goes on.
C5_RoutingFailureIsolated ==
    \A d \in Failed("DNSException") : pc # "aborted" /\ Skipped(d)

\* C6: nothing is printed before every open wiki was visited; the lines
\* printed are one per key of the mapping, in strictly increasing order of
\* the key, and at the end one TOTAL line with the sums over the mapping.
C6_Report ==
    LET n == Cardinality(DOMAIN stats)
        Key(i) == CHOOSE k \in DOMAIN stats :
                      out[i] = format(k, stats[k].total, stats[k].wmcs)
    IN
    /\ out # <<>> =>
          /\ pc \in {"print", "done"}
          /\ todo = {}
          /\ Visited = get_public_open_wikis.val
    /\ pc = "print" => Len(out) + Len(keys) = n
    /\ pc \in {"print", "done"} =>
          /\ \A i \in 1..Len(out) : i <= n =>
                \E k \in DOMAIN stats :
                    out[i] = format(k, stats[k].total, stats[k].wmcs)
          /\ \A i, j \in 1..Len(out) :
                (i < j /\ j <= n) => StrLess(Key(i), Key(j))
    /\ pc = "done" =>
          /\ Len(out) = n + 1
          /\ out[n + 1] = TotalLine(DOMAIN stats)

\* C6 witness: aawiki with 2 edits, zzwiki with 1 edit from the networks:
\* aawiki,2,0 then zzwiki,1,1 then TOTAL,3,1
C6_Witness ==
    /\ pc = "done"
    /\ out = << aawiki \o <<",", "2", ",", "0">>,
                zzwiki \o <<",", "1", ",", "1">>,
                <<"T", "O", "T", "A", "L", ",", "3", ",", "1">> >>

\* C8: the connection of a wiki is released before the loop goes on to the
\* next wiki: at most one connection is open at any time, none between two
\* wikis and none when the report is printed.
C8_ConnectionReleased ==
    /\ Cardinality(opened) <= 1
    /\ pc \in {"loop", "print", "done"} => opened = {}

\* C10: every row increments total by one, and once a range has matched
\* the address of a row no further range is tested for that row.
C10_StopsAtFirstMatch ==
    /\ pc \in {"rows", "nets"} => total_edits = nrows
    /\ pc = "nets" =>
          ~\E j \in 1..(net - 1) : InNetwork(ip, WMCS_NETWORKS[j])

====
